---- MODULE Spec2Model ----
(***************************************************************************)
(* Solar forecast pipeline and dashboard.                                  *)
(*   forecast_solar_data.py : read_csv, write_to_csv, sarima_forecast,     *)
(*                            check_stationarity, forecast_solar_data,     *)
(*                            script entry point                           *)
(*   fetch_solar_data.py    : fetch_solar_data                             *)
(*   streamlit_solar.py     : load_data, save_forecast, forecast_data, main*)
(*                                                                         *)
(* Timestamps are whole hours (UTC).  A missing value (None, NaN) is the   *)
(* empty sequence and a present value v is <<v>>.  Calls into pandas,      *)
(* statsmodels and the ENTSO-E client are nondeterministic over the        *)
(* outcomes those libraries have: a value or a raised exception.           *)
(***************************************************************************)
EXTENDS Integers, Sequences, FiniteSets, TLC

\* ----------------------------------------------------------------------
\* Bounds of the model
\* ----------------------------------------------------------------------
MaxObs == 3
MaxLen == 4
MaxVal == 2

\* ----------------------------------------------------------------------
\* Program constants
\* ----------------------------------------------------------------------
HoursPerDay == 24
DaysPerMonth == 30
forecast_periods == 14
best_p == 4
best_d == 1
best_q == 7
best_P == 1
best_D == 0
best_Q == 1
best_S == 52
SignificancePct == 5

TimeCol == "datetime_Europe_Brussels"
FetchedValueCol == "solar_actual_MWh"
ScriptColumn == "solar_actual_MWh"
DashColumn == "solar_actual"
Unit == "MWh"

Procs == {1, 2}

\* ----------------------------------------------------------------------
\* Values, results, files
\* ----------------------------------------------------------------------
None == <<>>
Some(v) == <<v>>
NaN == <<>>

Ok(v) == [raised |-> "none", value |-> v]
Raise(e) == [raised |-> e, value |-> <<>>]

Range(s) == {s[i] : i \in 1..Len(s)}
Max(a, b) == IF a >= b THEN a ELSE b

NoFile == [exists |-> FALSE, cols |-> <<>>, rows |-> <<>>]
EmptyFile == [exists |-> TRUE, cols |-> <<>>, rows |-> <<>>]
CsvFile(cols, rows) == [exists |-> TRUE, cols |-> cols, rows |-> rows]
Hole == <<>>

ForecastCol(unit) == "Forecast (" \o unit \o ")"

\* ----------------------------------------------------------------------
\* forecast_solar_data.py : pure parts
\* ----------------------------------------------------------------------

\* pd.read_csv(file_path, parse_dates=[TimeCol]) inside read_csv's try block
read_csv(file) ==
    IF ~file.exists THEN Raise("FileNotFoundError")
    ELSE IF file.cols = <<>> THEN Raise("EmptyDataError")
    ELSE IF TimeCol \notin Range(file.cols) THEN Raise("ValueError")
    ELSE Ok([col |-> file.cols[2], rows |-> file.rows])

\* df = df[df.index >= one_month_ago]
one_month_ago(now) == now - DaysPerMonth * HoursPerDay
FilterLastMonth(rows, now) ==
    LET keep(r) == r[1] >= one_month_ago(now) IN SelectSeq(rows, keep)

\* Start of the calendar day holding timestamp t
DayStart(t) == (t \div HoursPerDay) * HoursPerDay

RECURSIVE SumValues(_)
SumValues(rows) == IF rows = <<>> THEN 0 ELSE rows[1][2] + SumValues(Tail(rows))

\* df.resample('D').sum(): one row per day from the first to the last
\* observed day, empty days summing to 0
Resample(rows) ==
    IF rows = <<>> THEN <<>>
    ELSE LET first == DayStart(rows[1][1])
             last == DayStart(rows[Len(rows)][1])
             n == (last - first) \div HoursPerDay + 1
         IN [k \in 1..n |->
                LET day == first + (k - 1) * HoursPerDay
                    inDay(r) == DayStart(r[1]) = day
                IN <<day, Some(SumValues(SelectSeq(rows, inDay)))>>]

\* series.diff(): first entry NaN, then differences
Diff(rows) ==
    [i \in 1..Len(rows) |->
        IF i = 1 \/ rows[i][2] = NaN \/ rows[i - 1][2] = NaN
        THEN <<rows[i][1], NaN>>
        ELSE <<rows[i][1], Some(rows[i][2][1] - rows[i - 1][2][1])>>]

\* series.dropna()
Dropna(rows) == LET present(r) == r[2] # NaN IN SelectSeq(rows, present)

\* df[col] = series: values are aligned on the frame's index, timestamps
\* the series lacks become NaN
AssignAligned(rows, series) ==
    [i \in 1..Len(rows) |->
        IF \E j \in 1..Len(series) : series[j][1] = rows[i][1]
        THEN LET j == CHOOSE j \in 1..Len(series) : series[j][1] = rows[i][1]
             IN <<rows[i][1], series[j][2]>>
        ELSE <<rows[i][1], NaN>>]

\* df[forecast_column] = df[forecast_column].diff().dropna()
Difference(rows) == AssignAligned(rows, Dropna(Diff(rows)))

IsConstant(rows) == \A i, j \in 1..Len(rows) : rows[i][2] = rows[j][2]

\* adfuller(...): the p-value in percent, NaN, or an exception.  An empty
\* series cannot be tested; a constant one gives an undefined statistic.
PValues == {Some(1), Some(5), Some(6), Some(50)}
AdfullerOutcomes(rows) ==
    IF rows = <<>> THEN {Raise("ValueError")}
    ELSE IF IsConstant(rows) THEN {Raise("ValueError"), Ok(NaN)}
    ELSE {Ok(p) : p \in PValues} \cup {Raise("ValueError")}

\* result[1] <= 0.05 ; a comparison with NaN is False
PValueLeq(p, pct) == p # NaN /\ p[1] <= pct

check_stationarity(adf) ==
    IF adf.raised # "none" THEN Raise(adf.raised)
    ELSE Ok(PValueLeq(adf.value, SignificancePct))

\* Outcomes of SARIMAX(...).fit().predict(...): an exception, or a set of
\* forecast positions whose value is negative
NegativeDays == {1, 2, 3, 14}
FitOutcomes == {Raise("FitError")} \cup {Ok(N) : N \in SUBSET NegativeDays}

\* the prediction range taken as half-open
Predict_OffByOne(start, end, neg) ==
    [i \in 1..(end - start) |-> IF i \in neg THEN 0 - i ELSE i]

\* model_fit.predict(start=len(df), end=len(df) + forecast_periods - 1)
Predict(start, end, neg) ==
    [i \in 1..(end - start + 1) |-> IF i \in neg THEN 0 - i ELSE i]

\* the except clause returning an empty series instead of re-raising
sarima_forecast_Swallow(rows, periods, fit) ==
    IF fit.raised # "none" THEN Ok(<<>>)
    ELSE Ok(Predict(Len(rows), Len(rows) + periods - 1, fit.value))

sarima_forecast(rows, periods, fit) ==
    IF fit.raised # "none" THEN Raise(fit.raised)
    ELSE Ok(Predict(Len(rows), Len(rows) + periods - 1, fit.value))

\* for i in range(1, len(forecast)): if forecast[i] < 0: forecast[i] = forecast[i - 1]
\* (Python position i is sequence index i + 1)
RECURSIVE ReplaceFrom(_, _)
ReplaceFrom(forecast, i) ==
    IF i > Len(forecast) - 1 THEN forecast
    ELSE ReplaceFrom(IF forecast[i + 1] < 0
                     THEN [forecast EXCEPT ![i + 1] = forecast[i]]
                     ELSE forecast, i + 1)

\* the loop started one position late
ReplaceNegatives_LateStart(forecast) == ReplaceFrom(forecast, 2)

\* the loop reading the uncorrected predecessor
ReplaceNegatives_RawPrev(forecast) ==
    [i \in 1..Len(forecast) |->
        IF i > 1 /\ forecast[i] < 0 THEN forecast[i - 1] ELSE forecast[i]]

ReplaceNegatives(forecast) == ReplaceFrom(forecast, 1)

\* the range started at the last observed day itself
forecast_dates_NoShift(rows, periods) ==
    [k \in 1..periods |-> rows[Len(rows)][1] + (k - 1) * HoursPerDay]

\* pd.date_range(start=df.index[-1] + pd.Timedelta(days=1), periods=forecast_periods, freq='D')
forecast_dates(rows, periods) ==
    [k \in 1..periods |-> (rows[Len(rows)][1] + HoursPerDay) + (k - 1) * HoursPerDay]

\* pd.DataFrame({TimeCol: forecast_dates, 'Forecast': forecast}); the array
\* of dates must be as long as the series, else ValueError
ForecastFrame(dates, forecast, unit) ==
    IF Len(dates) # Len(forecast) THEN Raise("ValueError")
    ELSE Ok([cols |-> <<TimeCol, ForecastCol(unit)>>,
             rows |-> [k \in 1..Len(forecast) |-> <<dates[k], forecast[k]>>]])

\* open(path, 'w'): the file exists and is empty
OpenTruncate(file) == EmptyFile

\* a write of rows at offset pos of the file, over what is there
WriteAt(file, cols, pos, chunk) ==
    CsvFile(cols,
            [i \in 1..Max(Len(file.rows), pos + Len(chunk)) |->
                IF i > pos /\ i <= pos + Len(chunk) THEN chunk[i - pos]
                ELSE IF i <= Len(file.rows) THEN file.rows[i]
                ELSE Hole])

\* forecast_solar_data up to the resampling: the frame, or the exception
\* read_csv raised
PrepareFrame(inFile, t) ==
    LET r == read_csv(inFile)
    IN IF r.raised # "none" THEN r
       ELSE Ok([col |-> r.value.col, rows |-> Resample(FilterLastMonth(r.value.rows, t))])

\* forecast_solar_data from the stationarity check to its last line, given
\* what PrepareFrame gave: the exception it ends with ("none" when it
\* returns) and the output file it leaves.  adfOk tells whether adf is
\* something adfuller can do on the series this run tests.
ForecastFrom(prep, outFile, column, unit, adf, fit, ioOk) ==
    LET Ends(e, file, ok) == [raised |-> e, file |-> file, adfOk |-> ok]
    IN IF prep.raised # "none" THEN Ends(prep.raised, outFile, TRUE)
       ELSE IF prep.value.col # column THEN Ends("KeyError", outFile, TRUE)
       ELSE LET rows == prep.value.rows
                st == check_stationarity(adf)
            IN IF adf \notin AdfullerOutcomes(Dropna(rows)) THEN Ends("none", outFile, FALSE)
               ELSE IF st.raised # "none" THEN Ends(st.raised, outFile, TRUE)
               ELSE LET rows2 == IF st.value THEN rows ELSE Difference(rows)
                        f == sarima_forecast(rows2, forecast_periods, fit)
                    IN IF f.raised # "none" THEN Ends(f.raised, outFile, TRUE)
                       ELSE LET frame == ForecastFrame(forecast_dates(rows2, forecast_periods),
                                                       ReplaceNegatives(f.value), unit)
                            IN IF frame.raised # "none" THEN Ends(frame.raised, outFile, TRUE)
                               ELSE IF ~ioOk THEN Ends("OSError", outFile, TRUE)
                               ELSE Ends("none", CsvFile(frame.value.cols, frame.value.rows), TRUE)

AllAdfOutcomes == {Raise("ValueError"), Ok(NaN)} \cup {Ok(p) : p \in PValues}

\* ----------------------------------------------------------------------
\* fetch_solar_data.py
\* ----------------------------------------------------------------------

\* df.resample('1h').sum(): one row per hour from the first to the last
ResampleHourly(rows) ==
    IF rows = <<>> THEN <<>>
    ELSE LET first == rows[1][1]
             n == rows[Len(rows)][1] - first + 1
         IN [k \in 1..n |->
                LET inHour(r) == r[1] = first + k - 1
                IN <<first + k - 1, SumValues(SelectSeq(rows, inHour))>>]

\* fetch_solar_data(api_key, filename): what it raises, what it returns and
\* the data file it leaves.  The function has no return statement.
fetch_solar_data(file, api) ==
    IF api.raised # "none" THEN [raised |-> api.raised, value |-> None, file |-> file]
    ELSE [raised |-> "none", value |-> None,
          file |-> CsvFile(<<TimeCol, FetchedValueCol>>, ResampleHourly(api.value))]

\* ----------------------------------------------------------------------
\* streamlit_solar.py : pure parts
\* ----------------------------------------------------------------------

\* load_data(file_path): the frame (None after a caught error) and the
\* st.error it showed.  pandas' EmptyDataError is a ValueError.
load_data(file) ==
    IF ~file.exists THEN [value |-> None, errors |-> {"The file was not found."}]
    ELSE IF file.cols = <<>> \/ TimeCol \notin Range(file.cols)
    THEN [value |-> None, errors |-> {"Error parsing the CSV file"}]
    ELSE [value |-> Some([index |-> TimeCol,
                          cols |-> SelectSeq(file.cols, LAMBDA c : c # TimeCol),
                          rows |-> file.rows]),
          errors |-> {}]

\* forecast.to_csv(file_path): the index is written as the first column
save_forecast(frame) == CsvFile(<<frame.index>> \o frame.cols, frame.rows)

\* if data_fetched:
Truthy(v) == v # None

\* if 'last_update' not in st.session_state: ... ; data_source = "None"
BeginRun(s) ==
    [s EXCEPT !.keys = @ \cup {"last_update"},
              !.last_update = IF "last_update" \in s.keys THEN @ ELSE None,
              !.source = "None", !.msgs = {}, !.uncaught = "none"]

Abort(s, e) == [s EXCEPT !.uncaught = e]

\* the branch taken when data_fetched is true; r is what forecast_solar_data did
ApiPath(s, t, r) ==
    LET s1 == [s EXCEPT !.forecastFile = r.file]
        l == load_data(r.file)
    IN IF r.raised # "none" THEN Abort(s1, r.raised)
       ELSE IF l.value = None THEN Abort([s1 EXCEPT !.msgs = @ \cup l.errors], "AttributeError")
       ELSE [s1 EXCEPT !.forecastFile = save_forecast(l.value[1]),
                       !.keys = @ \cup {"forecast"},
                       !.last_update = Some(t),
                       !.forecast = l.value,
                       !.msgs = @ \cup {"Data updated and forecast saved successfully!"},
                       !.source = "API"]

\* the branch taken when data_fetched is false
FallbackPath(s) ==
    LET l == load_data(s.forecastFile)
        s1 == [s EXCEPT !.msgs = @ \cup {"Failed to load data from API."} \cup l.errors,
                        !.keys = @ \cup {"forecast"}]
    IN IF l.value # None
       THEN [s1 EXCEPT !.forecast = l.value, !.source = "Local file"]
       ELSE [s1 EXCEPT !.msgs = @ \cup {"Failed to load forecast data from local file."},
                       !.forecast = None, !.source = "None"]

\* the branch taken when the button was not clicked
RerunPath(s) ==
    LET l == load_data(s.forecastFile)
    IN IF l.value # None
       THEN [s EXCEPT !.keys = @ \cup {"forecast"}, !.forecast = l.value,
                      !.source = "Local file"]
       ELSE [s EXCEPT !.msgs = @ \cup l.errors]

\* df = load_data(data_file_path); st.write(df.iloc[-1])
ShowData(s) ==
    IF s.uncaught # "none" THEN s
    ELSE LET l == load_data(s.dataFile)
             s1 == [s EXCEPT !.msgs = @ \cup l.errors]
         IN IF l.value # None /\ l.value[1].rows = <<>> THEN Abort(s1, "IndexError") ELSE s1

\* the forecast section at the end of main
ShowForecast(s) ==
    IF s.uncaught # "none" THEN s
    ELSE IF "forecast" \in s.keys /\ s.forecast # None
    THEN IF s.forecast[1].rows = <<>> THEN Abort(s, "IndexError")
         ELSE IF TimeCol \in Range(s.forecast[1].cols)
         THEN IF ForecastCol(Unit) \in Range(s.forecast[1].cols) THEN s ELSE Abort(s, "KeyError")
         ELSE [s EXCEPT !.msgs = @ \cup {"'datetime_Europe_Brussels' column is missing in the forecast data."}]
    ELSE [s EXCEPT !.msgs = @ \cup {"No forecast data available. Click 'Update Data' to load data."}]

\* ----------------------------------------------------------------------
\* State
\* ----------------------------------------------------------------------
VARIABLES
    dataFile,       \* DE_solar_energy_last_1_month.csv
    forecastFile,   \* forecasted_solar_energy.csv
    now,            \* the clock, in hours
    pc,             \* per run of forecast_solar_data.py: position in the script
    df,             \* per run: the frame held in df
    forecast,       \* per run: the forecast series
    forecast_df,    \* per run: the frame handed to write_to_csv
    exc,            \* per run: exception in flight ("none" when there is none)
    caught,         \* per run: exception caught by the script's except clause
    log,            \* per run: logging.error messages
    adfOut,         \* per run: what adfuller did (None before the call)
    fitOut,         \* per run: what SARIMAX fit/predict did (None before the call)
    writeCalled,    \* per run: write_to_csv has been entered
    fileBefore,     \* forecastFile before write_to_csv was first entered
    seen,           \* what the last load_data of the forecast file returned
    raw,            \* post-processing alone: the forecast before the loop
    corrected,      \* post-processing alone: the forecast after the loop
    ss_keys,        \* dashboard: keys present in st.session_state
    ss_last_update, \* dashboard: st.session_state['last_update']
    ss_forecast,    \* dashboard: st.session_state['forecast']
    data_source,    \* dashboard: data_source at the end of the last run of main
    messages,       \* dashboard: st.error/st.warning/st.success of the last run
    uncaught,       \* dashboard: exception that ended the last run of main
    lastRun         \* dashboard: what the last run of main was given

fileVars == <<dataFile, forecastFile, now>>
runVars == <<pc, df, forecast, forecast_df, exc, caught, log, adfOut, fitOut,
             writeCalled, fileBefore>>
clampVars == <<raw, corrected>>
dashVars == <<ss_keys, ss_last_update, ss_forecast, data_source, messages, uncaught, lastRun>>
vars == <<fileVars, runVars, seen, clampVars, dashVars>>

\* ----------------------------------------------------------------------
\* Inputs
\* ----------------------------------------------------------------------
ObsHour(k) == 23 * k
ObsValues == {0, 1}

\* Series with at most one observation per slot, in time order
RECURSIVE SeriesUpTo(_)
SeriesUpTo(k) ==
    IF k = 0 THEN {<<>>}
    ELSE LET shorter == SeriesUpTo(k - 1)
         IN shorter \cup {Append(s, <<ObsHour(k), v>>) : s \in shorter, v \in ObsValues}

DataRows == SeriesUpTo(MaxObs)
DataFiles ==
    {NoFile, CsvFile(<<"utc_timestamp", FetchedValueCol>>, <<>>)}
    \cup {CsvFile(<<TimeCol, c>>, rows) : c \in {FetchedValueCol, DashColumn}, rows \in DataRows}

NowChoices == {DaysPerMonth * HoursPerDay + c : c \in {0, 24, 60}}

\* A forecast file left by an earlier complete run
OldForecastFile ==
    CsvFile(<<TimeCol, ForecastCol(Unit)>>, [k \in 1..forecast_periods |-> <<k * HoursPerDay, 7>>])
ForecastFiles == {NoFile, OldForecastFile}

IdleRun ==
    /\ df = [p \in Procs |-> [col |-> "", rows |-> <<>>]]
    /\ forecast = [p \in Procs |-> <<>>]
    /\ forecast_df = [p \in Procs |-> [cols |-> <<>>, rows |-> <<>>]]
    /\ exc = [p \in Procs |-> "none"]
    /\ caught = [p \in Procs |-> "none"]
    /\ log = [p \in Procs |-> {}]
    /\ adfOut = [p \in Procs |-> None]
    /\ fitOut = [p \in Procs |-> None]
    /\ writeCalled = [p \in Procs |-> FALSE]

IdleClamp == raw = <<>> /\ corrected = None

IdleDash ==
    /\ ss_keys = {}
    /\ ss_last_update = None
    /\ ss_forecast = None
    /\ data_source = "None"
    /\ messages = {}
    /\ uncaught = "none"
    /\ lastRun = None

\* ----------------------------------------------------------------------
\* forecast_solar_data.py run as a script, one step per stage
\* ----------------------------------------------------------------------
Raised(p, e, msgs) ==
    /\ pc' = [pc EXCEPT ![p] = "raised"]
    /\ exc' = [exc EXCEPT ![p] = e]
    /\ log' = [log EXCEPT ![p] = @ \cup msgs]

\* df = read_csv(input_file_path)
ReadCsv(p) ==
    /\ pc[p] = "start"
    /\ LET r == read_csv(dataFile)
       IN IF r.raised # "none"
          THEN Raised(p, r.raised, {"Error reading the CSV file"}) /\ UNCHANGED df
          ELSE /\ df' = [df EXCEPT ![p] = r.value]
               /\ pc' = [pc EXCEPT ![p] = "loaded"]
               /\ UNCHANGED <<exc, log>>
    /\ UNCHANGED <<fileVars, forecast, forecast_df, caught, adfOut, fitOut,
                   writeCalled, fileBefore, seen, clampVars, dashVars>>

\* index to UTC, keep the last month, resample to days
FilterResample(p) ==
    /\ pc[p] = "loaded"
    /\ df' = [df EXCEPT ![p].rows = Resample(FilterLastMonth(@, now))]
    /\ pc' = [pc EXCEPT ![p] = "resampled"]
    /\ UNCHANGED <<fileVars, forecast, forecast_df, exc, caught, log, adfOut, fitOut,
                   writeCalled, fileBefore, seen, clampVars, dashVars>>

\* if not check_stationarity(df[forecast_column]): difference
CheckStationarity(p, column) ==
    /\ pc[p] = "resampled"
    /\ IF df[p].col # column
       THEN Raised(p, "KeyError", {}) /\ UNCHANGED <<df, adfOut>>
       ELSE \E adf \in AdfullerOutcomes(Dropna(df[p].rows)) :
              /\ adfOut' = [adfOut EXCEPT ![p] = Some(adf)]
              /\ LET r == check_stationarity(adf)
                 IN IF r.raised # "none"
                    THEN Raised(p, r.raised, {}) /\ UNCHANGED df
                    ELSE /\ df' = [df EXCEPT ![p].rows = IF r.value THEN @ ELSE Difference(@)]
                         /\ pc' = [pc EXCEPT ![p] = "checked"]
                         /\ UNCHANGED <<exc, log>>
    /\ UNCHANGED <<fileVars, forecast, forecast_df, caught, fitOut,
                   writeCalled, fileBefore, seen, clampVars, dashVars>>

\* forecast = sarima_forecast(df, forecast_column, 4, 1, 7, 1, 0, 1, 52, 14)
SarimaForecast(p) ==
    /\ pc[p] = "checked"
    /\ \E fit \in FitOutcomes :
         /\ fitOut' = [fitOut EXCEPT ![p] = Some(fit)]
         /\ LET r == sarima_forecast(df[p].rows, forecast_periods, fit)
            IN IF r.raised # "none"
               THEN Raised(p, r.raised, {"Error during SARIMA forecasting"}) /\ UNCHANGED forecast
               ELSE /\ forecast' = [forecast EXCEPT ![p] = r.value]
                    /\ pc' = [pc EXCEPT ![p] = "forecasted"]
                    /\ UNCHANGED <<exc, log>>
    /\ UNCHANGED <<fileVars, df, forecast_df, caught, adfOut,
                   writeCalled, fileBefore, seen, clampVars, dashVars>>

\* the replacement loop, the dates, the frame and its column names
PostProcess(p) ==
    /\ pc[p] = "forecasted"
    /\ LET fixed == ReplaceNegatives(forecast[p])
           frame == ForecastFrame(forecast_dates(df[p].rows, forecast_periods), fixed, Unit)
       IN /\ forecast' = [forecast EXCEPT ![p] = fixed]
          /\ IF frame.raised # "none"
             THEN Raised(p, frame.raised, {}) /\ UNCHANGED forecast_df
             ELSE /\ forecast_df' = [forecast_df EXCEPT ![p] = frame.value]
                  /\ pc' = [pc EXCEPT ![p] = "framed"]
                  /\ UNCHANGED <<exc, log>>
    /\ UNCHANGED <<fileVars, df, caught, adfOut, fitOut,
                   writeCalled, fileBefore, seen, clampVars, dashVars>>

\* write_to_csv: df.to_csv opens the output file for writing
WriteOpen(p) ==
    /\ pc[p] = "framed"
    /\ writeCalled' = [writeCalled EXCEPT ![p] = TRUE]
    /\ \E ioOk \in BOOLEAN :
         IF ioOk
         THEN /\ forecastFile' = OpenTruncate(forecastFile)
              /\ pc' = [pc EXCEPT ![p] = "writing"]
              /\ UNCHANGED <<exc, log>>
         ELSE /\ Raised(p, "OSError", {"Error writing the CSV file"})
              /\ UNCHANGED forecastFile
    /\ UNCHANGED <<dataFile, now, df, forecast, forecast_df, caught, adfOut, fitOut,
                   fileBefore, seen, clampVars, dashVars>>

\* write_to_csv: the rows, which fit in the writer's buffer, reach the file
\* in one write when to_csv closes it and the call returns; a write that
\* fails leaves the file as it is
WriteClose(p) ==
    /\ pc[p] = "writing"
    /\ \E ioOk \in BOOLEAN :
         IF ioOk
         THEN /\ forecastFile' = WriteAt(forecastFile, forecast_df[p].cols, 0, forecast_df[p].rows)
              /\ pc' = [pc EXCEPT ![p] = "returned"]
              /\ UNCHANGED <<exc, log>>
         ELSE /\ Raised(p, "OSError", {"Error writing the CSV file"})
              /\ UNCHANGED forecastFile
    /\ UNCHANGED <<dataFile, now, df, forecast, forecast_df, caught, adfOut,
                   fitOut, writeCalled, fileBefore, seen, clampVars, dashVars>>

\* the script's try block ends normally
MainReturn(p) ==
    /\ pc[p] = "returned"
    /\ pc' = [pc EXCEPT ![p] = "exit"]
    /\ UNCHANGED <<fileVars, df, forecast, forecast_df, exc, caught, log, adfOut,
                   fitOut, writeCalled, fileBefore, seen, clampVars, dashVars>>

\* except Exception as e: logging.error(...)
MainCatch(p) ==
    /\ pc[p] = "raised"
    /\ caught' = [caught EXCEPT ![p] = exc[p]]
    /\ exc' = [exc EXCEPT ![p] = "none"]
    /\ log' = [log EXCEPT ![p] = @ \cup {"An error occurred"}]
    /\ pc' = [pc EXCEPT ![p] = "exit"]
    /\ UNCHANGED <<fileVars, df, forecast, forecast_df, adfOut,
                   fitOut, writeCalled, fileBefore, seen, clampVars, dashVars>>

Init ==
    /\ dataFile \in DataFiles
    /\ forecastFile \in ForecastFiles
    /\ now \in NowChoices
    /\ fileBefore = forecastFile
    /\ pc = [p \in Procs |-> IF p = 1 THEN "start" ELSE "exit"]
    /\ IdleRun
    /\ seen = None
    /\ IdleClamp
    /\ IdleDash

Next ==
    \E p \in {1} :
        \/ ReadCsv(p)
        \/ FilterResample(p)
        \/ CheckStationarity(p, ScriptColumn)
        \/ SarimaForecast(p)
        \/ PostProcess(p)
        \/ WriteOpen(p)
        \/ WriteClose(p)
        \/ MainReturn(p)
        \/ MainCatch(p)

Spec == Init /\ [][Next]_vars

\* ----------------------------------------------------------------------
\* The replacement loop on its own
\* ----------------------------------------------------------------------
RECURSIVE SeqsOfLen(_, _)
SeqsOfLen(S, n) ==
    IF n = 0 THEN {<<>>}
    ELSE {Append(q, v) : q \in SeqsOfLen(S, n - 1), v \in S}

RawForecasts == UNION {SeqsOfLen((0 - MaxVal)..MaxVal, n) : n \in 0..MaxLen}

InitClamp ==
    /\ raw \in RawForecasts
    /\ corrected = None
    /\ dataFile = NoFile
    /\ forecastFile = NoFile
    /\ now = DaysPerMonth * HoursPerDay
    /\ fileBefore = NoFile
    /\ pc = [p \in Procs |-> "exit"]
    /\ IdleRun
    /\ seen = None
    /\ IdleDash

Clamp ==
    /\ corrected = None
    /\ corrected' = Some(ReplaceNegatives(raw))
    /\ UNCHANGED <<fileVars, runVars, seen, raw, dashVars>>

NextClamp == Clamp

SpecClamp == InitClamp /\ [][NextClamp]_vars

\* ----------------------------------------------------------------------
\* Properties of the replacement loop (SpecClamp)
\* ----------------------------------------------------------------------

\* C1: the first value is kept as it is; every later value that is negative
\* in the raw forecast becomes the corrected value before it, and every
\* other value is kept.
C1_ClampCopiesCorrectedPredecessor ==
    corrected # None =>
        LET c == corrected[1]
        IN /\ Len(c) = Len(raw)
           /\ Len(raw) >= 1 => c[1] = raw[1]
           /\ \A i \in 2..Len(raw) :
                IF raw[i] < 0 THEN c[i] = c[i - 1] ELSE c[i] = raw[i]

C1_Witness ==
    /\ corrected # None
    /\ Len(raw) >= 3
    /\ raw[1] < 0 /\ raw[2] < 0 /\ raw[3] < 0
    /\ raw[2] # raw[1]
    /\ corrected[1][3] = raw[1]

\* C2 as stated: after the loop no value past the first is negative.
C2_NoNegativeAfterFirst ==
    corrected # None => \A i \in 2..Len(raw) : corrected[1][i] >= 0

\* C2 amended: a value past the first is negative after the loop only when
\* the first raw value is negative and every raw value from the second up
\* to it is negative; it is then a copy of the first raw value.
C2_NegativeOnlyFromFirst ==
    corrected # None =>
        \A i \in 2..Len(raw) :
            corrected[1][i] < 0 =>
                /\ raw[1] < 0
                /\ \A j \in 2..i : raw[j] < 0
                /\ corrected[1][i] = raw[1]

C2_Witness ==
    /\ corrected # None
    /\ Len(raw) >= 3
    /\ raw[1] >= 0 /\ raw[2] < 0 /\ raw[3] < 0
    /\ corrected[1][3] >= 0

\* ----------------------------------------------------------------------
\* Properties of a run of the script (Spec)
\* ----------------------------------------------------------------------
FitRaised(p) == fitOut[p] # None /\ fitOut[p][1].raised # "none"
FitSucceeded(p) == fitOut[p] # None /\ fitOut[p][1].raised = "none"

\* C3: a forecast that the fit produced has forecast_periods values, and
\* when forecast_solar_data returns the output file holds exactly
\* forecast_periods rows.
C3_ExactlyHorizonRows ==
    \A p \in Procs :
        /\ FitSucceeded(p) => Len(forecast[p]) = forecast_periods
        /\ pc[p] = "returned" =>
              /\ forecastFile.exists
              /\ Len(forecastFile.rows) = forecast_periods
              /\ \A k \in 1..forecast_periods : forecastFile.rows[k] # Hole

C3_Witness ==
    /\ pc[1] = "returned"
    /\ Len(df[1].rows) = 1
    /\ Len(forecastFile.rows) = forecast_periods

\* C4: the forecast dates are one day apart, and the first one is one day
\* after the last day of the resampled input, which is the day of the last
\* observation of the past month.
C4_DatesContiguousAfterInput ==
    \A p \in Procs :
        pc[p] \in {"framed", "writing", "returned"} =>
            LET rows == forecast_df[p].rows
                kept == FilterLastMonth(dataFile.rows, now)
            IN /\ df[p].rows[Len(df[p].rows)][1] = DayStart(kept[Len(kept)][1])
               /\ rows[1][1] = df[p].rows[Len(df[p].rows)][1] + HoursPerDay
               /\ \A k \in 1..(Len(rows) - 1) : rows[k + 1][1] = rows[k][1] + HoursPerDay
               /\ pc[p] = "returned" =>
                     \A k \in 1..Len(rows) : forecastFile.rows[k][1] = rows[k][1]

C4_Witness ==
    /\ pc[1] = "returned"
    /\ Len(df[1].rows) >= 2
    /\ df[1].rows[1][2] = NaN
    /\ forecastFile.rows[1][1] = df[1].rows[Len(df[1].rows)][1] + HoursPerDay

\* C5: when the fit or the prediction raises, forecast_solar_data ends with
\* that exception reaching its caller, write_to_csv is not entered and the
\* output file stays what it was.
C5_FitFailureWritesNothing ==
    \A p \in Procs :
        FitRaised(p) =>
            /\ ~writeCalled[p]
            /\ forecastFile = fileBefore
            /\ pc[p] \in {"raised", "exit"}
            /\ pc[p] = "raised" => exc[p] = fitOut[p][1].raised
            /\ pc[p] = "exit" => caught[p] = fitOut[p][1].raised

C5_Witness ==
    /\ FitRaised(1)
    /\ pc[1] = "exit"
    /\ fileBefore = OldForecastFile
    /\ forecastFile = OldForecastFile

\* C6 as stated: a resampled series shorter than p + d + q + P * S never
\* reaches the fit, and the output file is not written.
\* p + d + q + P * S
MinHistory == best_p + best_d + best_q + best_P * best_S
C6_ShortHistoryNeverFitted ==
    \A p \in Procs :
        (pc[p] \notin {"start", "loaded"} /\ Len(df[p].rows) < MinHistory) =>
            /\ fitOut[p] = None
            /\ ~writeCalled[p]
            /\ forecastFile = fileBefore

\* C9 as stated: an adfuller call that raises or gives a NaN p-value does
\* not end the run; the series is differenced and the run goes on.
AdfDegenerate(p) ==
    adfOut[p] # None /\ (adfOut[p][1].raised # "none" \/ adfOut[p][1].value = NaN)
C9_DegenerateTestProceeds ==
    \A p \in Procs :
        AdfDegenerate(p) =>
            /\ pc[p] # "raised"
            /\ caught[p] = "none"
            /\ df[p].rows[1][2] = NaN

\* ----------------------------------------------------------------------
\* Two runs of the script at write_to_csv, and a reader of the output file
\* ----------------------------------------------------------------------
RaceRows == <<<<ObsHour(1), 1>>, <<ObsHour(2), 0>>>>
RaceShapes == [Procs -> {{}, {2}, {2, 3}}]

\* forecast = load_data(forecast_file_path), as a rerun of the dashboard does
ReadForecast ==
    /\ seen' = Some(load_data(forecastFile))
    /\ UNCHANGED <<fileVars, runVars, clampVars, dashVars>>

InitRace ==
    /\ dataFile = CsvFile(<<TimeCol, FetchedValueCol>>, RaceRows)
    /\ forecastFile \in ForecastFiles
    /\ now = DaysPerMonth * HoursPerDay
    /\ fileBefore = forecastFile
    /\ pc = [p \in Procs |-> "framed"]
    /\ \E shape \in RaceShapes :
         LET rows == Resample(FilterLastMonth(RaceRows, now))
             fc == [p \in Procs |->
                      ReplaceNegatives(sarima_forecast(rows, forecast_periods, Ok(shape[p])).value)]
         IN /\ shape[1] # shape[2]
            /\ df = [p \in Procs |-> [col |-> FetchedValueCol, rows |-> rows]]
            /\ forecast = fc
            /\ forecast_df = [p \in Procs |->
                  ForecastFrame(forecast_dates(rows, forecast_periods), fc[p], Unit).value]
            /\ fitOut = [p \in Procs |-> Some(Ok(shape[p]))]
    /\ adfOut = [p \in Procs |-> Some(Ok(Some(1)))]
    /\ exc = [p \in Procs |-> "none"]
    /\ caught = [p \in Procs |-> "none"]
    /\ log = [p \in Procs |-> {}]
    /\ writeCalled = [p \in Procs |-> FALSE]
    /\ seen = None
    /\ IdleClamp
    /\ IdleDash

NextRace ==
    \/ \E p \in Procs :
        \/ WriteOpen(p)
        \/ WriteClose(p)
        \/ MainReturn(p)
        \/ MainCatch(p)
    \/ ReadForecast

SpecRace == InitRace /\ [][NextRace]_vars

\* C8 as stated: a read of the output file sees what was there before the
\* runs or all of what one run wrote, and when both runs have returned the
\* file is all of what one of them wrote.
CompleteFile(p) == CsvFile(forecast_df[p].cols, forecast_df[p].rows)
C8_OnlyCompleteFilesVisible ==
    /\ seen # None =>
          \/ seen[1].value = load_data(fileBefore).value
          \/ \E p \in Procs : seen[1].value = load_data(CompleteFile(p)).value
    /\ (\A p \in Procs : pc[p] = "exit" /\ caught[p] = "none") =>
          \E p \in Procs : forecastFile = CompleteFile(p)

\* ----------------------------------------------------------------------
\* The dashboard: runs of main, and runs of the script beside it
\* ----------------------------------------------------------------------
ApiRows == {rows \in DataRows : rows # <<>> /\ \A i \in 1..Len(rows) : rows[i][2] = 1}
ApiOutcomes == {Raise("ConnectionError"), Raise("NoMatchingDataError")}
               \cup {Ok(rows) : rows \in ApiRows}
ScriptFitOutcomes == {Raise("FitError"), Ok({}), Ok({1, 2})}

Session ==
    [keys |-> ss_keys, last_update |-> ss_last_update, forecast |-> ss_forecast,
     source |-> data_source, msgs |-> messages, uncaught |-> uncaught,
     dataFile |-> dataFile, forecastFile |-> forecastFile]

Finish(s, run) ==
    /\ ss_keys' = s.keys
    /\ ss_last_update' = s.last_update
    /\ ss_forecast' = s.forecast
    /\ data_source' = s.source
    /\ messages' = s.msgs
    /\ uncaught' = s.uncaught
    /\ dataFile' = s.dataFile
    /\ forecastFile' = s.forecastFile
    /\ lastRun' = Some(run)

\* the sections of main after the button's branch, and the end of the run
EndRun(s, run) ==
    \E shown \in {ShowData(s)} :
        \E done \in {ShowForecast(shown)} : Finish(done, run)

\* main() with the 'Update Data' button clicked
MainUpdate ==
    /\ \E secretsOk \in BOOLEAN, api \in ApiOutcomes :
         \E s0 \in {BeginRun(Session)}, f \in {fetch_solar_data(dataFile, api)} :
            IF ~secretsOk
            THEN Finish(Abort(s0, "KeyError"), [clicked |-> TRUE, fetch |-> "not called"])
            ELSE IF f.raised # "none"
            THEN Finish(Abort(s0, f.raised), [clicked |-> TRUE, fetch |-> "raised"])
            ELSE \E s1 \in {[s0 EXCEPT !.dataFile = f.file]} :
                    IF Truthy(f.value)
                    THEN \E prep \in {PrepareFrame(f.file, now)}, adf \in AllAdfOutcomes,
                            fit \in FitOutcomes, ioOk \in BOOLEAN :
                            \E r \in {ForecastFrom(prep, forecastFile, DashColumn, Unit,
                                                   adf, fit, ioOk)} :
                               /\ r.adfOk
                               /\ \E s2 \in {ApiPath(s1, now, r)} :
                                     EndRun(s2, [clicked |-> TRUE, fetch |-> "saved"])
                    ELSE \E s2 \in {FallbackPath(s1)} :
                            EndRun(s2, [clicked |-> TRUE, fetch |-> "saved"])
    /\ UNCHANGED <<now, runVars, seen, clampVars>>

\* main() rerun without a click
MainRerun ==
    /\ \E s0 \in {BeginRun(Session)} :
          \E s2 \in {RerunPath(s0)} :
             EndRun(s2, [clicked |-> FALSE, fetch |-> "not called"])
    /\ UNCHANGED <<now, runVars, seen, clampVars>>

\* python forecast_solar_data.py, start to end: the try block around
\* forecast_solar_data and its except clause
RunScript ==
    /\ \E prep \in {PrepareFrame(dataFile, now)}, adf \in AllAdfOutcomes,
          fit \in ScriptFitOutcomes, ioOk \in BOOLEAN :
         \E r \in {ForecastFrom(prep, forecastFile, ScriptColumn, Unit, adf, fit, ioOk)} :
               /\ r.adfOk
               /\ forecastFile' = r.file
               /\ caught' = [caught EXCEPT ![1] = r.raised]
               /\ log' = [log EXCEPT ![1] = IF r.raised # "none" THEN {"An error occurred"} ELSE {}]
    /\ UNCHANGED <<dataFile, now, pc, df, forecast, forecast_df, exc, adfOut, fitOut,
                   writeCalled, fileBefore, seen, clampVars, dashVars>>

InitDash ==
    /\ dataFile \in {NoFile, CsvFile(<<TimeCol, FetchedValueCol>>, ResampleHourly(RaceRows))}
    /\ forecastFile \in ForecastFiles
    /\ now \in NowChoices
    /\ fileBefore = forecastFile
    /\ pc = [p \in Procs |-> "exit"]
    /\ IdleRun
    /\ seen = None
    /\ IdleClamp
    /\ IdleDash

NextDash ==
    \/ MainUpdate
    \/ MainRerun
    \/ RunScript

SpecDash == InitDash /\ [][NextDash]_vars

NoForecastWarning == "No forecast data available. Click 'Update Data' to load data."

\* C7 as stated: a run of main whose fetch raised does not end with an
\* exception nobody caught: it shows an error, and it ends holding a
\* forecast or showing the 'No forecast data available' warning.  A run of
\* the script that failed has logged the error in its except clause.
C7_NoFailureEscapesCaller ==
    /\ (lastRun # None /\ lastRun[1].fetch = "raised") =>
          /\ uncaught = "none"
          /\ "Failed to load data from API." \in messages
          /\ ss_forecast # None \/ NoForecastWarning \in messages
    /\ \A p \in Procs : caught[p] # "none" => "An error occurred" \in log[p]

\* C10 as stated: an 'Update Data' run whose fetch saved the data file ends
\* with source 'API', the forecast stored and last_update set to the
\* current time; a clicked run ends on the fallback path only when the
\* fetch failed.
C10_SavedFetchTakesApiPath ==
    (lastRun # None /\ lastRun[1].clicked /\ lastRun[1].fetch = "saved") =>
        /\ data_source = "API"
        /\ ss_last_update = Some(now)
        /\ ss_forecast # None
        /\ "Failed to load data from API." \notin messages

====
